---- MODULE Spec2Model ----
(***************************************************************************)
(* Model of the backend-checklist servers.                                 *)
(*                                                                         *)
(*  - src/index.js (and its older copy src/unnamed/part_000): the signed   *)
(*    server.  Capability broker (signFileUrl / verifySignedToken,         *)
(*    POST /signed-urls, GET /drive-file/:id), the ack-first payment       *)
(*    webhook POST /mp/webhook, and POST /portal/set-access.               *)
(*  - src/driveAuth.js: two older servers without token signing, with the  *)
(*    synchronous payment webhook POST /webhook/mercadopago.               *)
(*                                                                         *)
(* Strings are sequences of one-character strings, so that splitting,      *)
(* number parsing, number formatting and URL building are computed the way *)
(* the JavaScript computes them.                                           *)
(***************************************************************************)
EXTENDS Integers, Sequences, FiniteSets, TLC

(***************************************************************************)
(* Bounds of the model.                                                    *)
(***************************************************************************)
\* number of clock advances in one behaviour
MaxTicks == 2
\* length of the hex digest (64 for SHA-256; shortened, see Hmac)
DigestHexLen == 16

(***************************************************************************)
(* String helpers (JavaScript built-ins).                                  *)
(***************************************************************************)
Digits == <<"0", "1", "2", "3", "4", "5", "6", "7", "8", "9">>

HexChars == {"0", "1", "2", "3", "4", "5", "6", "7", "8", "9",
             "a", "b", "c", "d", "e", "f"}

IsDigit(c) == \E i \in 1..10 : Digits[i] = c

DigitVal(c) == (CHOOSE i \in 1..10 : Digits[i] = c) - 1

\* String.prototype.split(sep) for a one-character separator
RECURSIVE Split(_, _)
Split(s, sep) ==
    IF \A i \in 1..Len(s) : s[i] # sep
    THEN <<s>>
    ELSE LET k == CHOOSE i \in 1..Len(s) :
                      s[i] = sep /\ \A j \in 1..(i - 1) : s[j] # sep
         IN  <<SubSeq(s, 1, k - 1)>> \o Split(SubSeq(s, k + 1, Len(s)), sep)

\* String(n) / `${n}` for a non-negative integer below 1e21
RECURSIVE ToDecimal(_)
ToDecimal(n) ==
    IF n < 10 THEN <<Digits[n + 1]>>
    ELSE ToDecimal(n \div 10) \o <<Digits[(n % 10) + 1]>>

\* value of a non-empty string of decimal digits (leading zeros allowed)
RECURSIVE DecVal(_)
DecVal(s) ==
    IF Len(s) = 0 THEN 0
    ELSE DecVal(SubSeq(s, 1, Len(s) - 1)) * 10 + DigitVal(s[Len(s)])

RECURSIVE Pow10(_)
Pow10(k) == IF k = 0 THEN 1 ELSE 10 * Pow10(k - 1)

AllDigits(s) == Len(s) > 0 /\ \A i \in 1..Len(s) : IsDigit(s[i])

NaN == [nan |-> TRUE, val |-> 0]

\* Number(str) on strings over digits, hex letters and "?": the empty string
\* is 0, a run of digits is its decimal value, digits "e" digits is the
\* exponent form, everything else is NaN.
Number(str) ==
    IF Len(str) = 0 THEN [nan |-> FALSE, val |-> 0]
    ELSE IF AllDigits(str) THEN [nan |-> FALSE, val |-> DecVal(str)]
    ELSE LET parts == Split(str, "e")
         IN  IF Len(parts) = 2 /\ AllDigits(parts[1]) /\ AllDigits(parts[2])
             THEN [nan |-> FALSE,
                   val |-> DecVal(parts[1]) * Pow10(DecVal(parts[2]))]
             ELSE NaN

(***************************************************************************)
(* crypto.createHmac("sha256", key).update(payload).digest("hex").         *)
(* SHA-256 cannot be computed here; the digest is idealised as a keyed,    *)
(* collision-free function of the payload string: one hex character for    *)
(* the key, one per payload character, a terminator, zero padding up to    *)
(* DigestHexLen.  Payloads of the model are shorter than DigestHexLen - 1. *)
(***************************************************************************)
CharHex(c) ==
    IF IsDigit(c) THEN c
    ELSE CASE c = "." -> "a"
           [] c = "a" -> "b"
           [] c = "b" -> "c"
           [] c = "?" -> "d"
           [] OTHER   -> "e"

KeyHex(key) == IF key = "k1" THEN "1" ELSE "2"

Hmac(key, payload) ==
    [i \in 1..DigestHexLen |->
        IF i = 1 THEN KeyHex(key)
        ELSE IF i - 1 <= Len(payload) THEN CharHex(payload[i - 1])
        ELSE IF i - 1 = Len(payload) + 1 THEN "f"
        ELSE "0"]

(***************************************************************************)
(* Capability broker: signFileUrl / verifySignedToken (src/index.js).      *)
(***************************************************************************)
Unset == ""

\* `${fileId}.${exp}`
PayloadNoId(fileId, exp) == ToDecimal(exp)

Payload(fileId, exp) == fileId \o <<".">> \o ToDecimal(exp)

signFileUrl(secret, fileId, expiresAtMs) ==
    ToDecimal(expiresAtMs) \o <<".">> \o Hmac(secret, Payload(fileId, expiresAtMs))

\* crypto.timingSafeEqual(Buffer.from(a), Buffer.from(b)): throws a
\* RangeError when the byte lengths differ
TimingSafeEqualLengthOnly(a, b) ==
    IF Len(a) # Len(b) THEN "RangeError" ELSE "true"

timingSafeEqual(a, b) ==
    IF Len(a) # Len(b) THEN "RangeError"
    ELSE IF a = b THEN "true" ELSE "false"

\* Date.now() > exp
ExpiredAtOrAfter(clock, exp) == clock >= exp

Expired(clock, exp) == clock > exp

\* try { return timingSafeEqual(..) } catch { return false }
Uncaught(outcome) == IF outcome = "RangeError" THEN "throws" ELSE outcome

TryCatch(outcome) == IF outcome = "RangeError" THEN "false" ELSE outcome

\* result is "true", "false" or "throws"
verifySignedToken(secret, fileId, token, clock) ==
    IF secret = Unset THEN "false"
    ELSE IF Len(token) = 0 THEN "false"
    ELSE LET parts  == Split(token, ".")
             expStr == parts[1]
             exp    == Number(expStr)
             noSig  == Len(parts) < 2 \/ Len(parts[2]) = 0
         IN  IF exp.nan \/ exp.val = 0 \/ noSig THEN "false"
             ELSE IF Expired(clock, exp.val) THEN "false"
             ELSE TryCatch(timingSafeEqual(parts[2],
                              Hmac(secret, Payload(fileId, exp.val))))

(***************************************************************************)
(* State.                                                                  *)
(***************************************************************************)
VARIABLES
    SIGNING_SECRET,  \* process.env.SIGNING_SECRET, fixed at process start
    now,             \* Date.now(), in ms since the process epoch
    ticks,           \* number of clock advances so far
    issued,          \* history: the tokens signFileUrl has produced
    lastVerify       \* the call of verifySignedToken made by the latest
                     \* step, NoVerify when that step was another operation

VARIABLES
    urlsRes,         \* the last response of POST /signed-urls
    req              \* the GET /drive-file/:id request being served

VARIABLES
    access           \* the POST /portal/set-access request being served

VARIABLES
    folders,         \* Drive: the non-trashed folders in creation order; a
                     \* folder's id is its position
    files,           \* Drive: the uploaded files in creation order; a file's
                     \* id is its position
    driveFiles,      \* the collection "driveFiles" of the document store, by
                     \* file id
    uploads          \* the upload requests being handled, by slot

VARIABLES
    server,          \* which server runs the webhook: "index" (src/index.js),
                     \* "driveAuthA" or "driveAuthB" (the two of src/driveAuth.js)
    mpClient,        \* "client", or "null" when MP_ACCESS_TOKEN is unset
    payments,        \* the payment provider's records, by payment id
    usuarios,        \* the collection "usuarios" of the document store, by uid
    hooks,           \* the webhook deliveries being handled, by slot
    date,            \* new Date(): day since 1 January and ms of the day
    dateTicks        \* number of advances of date so far

brokerVars == <<SIGNING_SECRET, now, ticks, issued, lastVerify>>

routeVars == <<urlsRes, req>>

hookVars == <<server, mpClient, payments, usuarios, hooks, date, dateTicks>>

accessVars == <<access>>

uploadVars == <<folders, files, driveFiles, uploads>>

vars == <<brokerVars, routeVars, hookVars, accessVars, uploadVars>>

(***************************************************************************)
(* Data of the payment webhooks.                                           *)
(***************************************************************************)
\* deliveries handled at the same time
MaxDeliveries == 1

\* advances of the date in one behaviour
MaxDateTicks == 2

Slots == 1..MaxDeliveries

\* PLANS of src/index.js (months, acessos); PLANOS of src/driveAuth.js holds
\* the same months and acessos under the same keys
PLANS == [mensal     |-> [months |-> 1,  acessos |-> 1],
          trimestral |-> [months |-> 3,  acessos |-> 1],
          anual      |-> [months |-> 12, acessos |-> 1],
          anual_plus |-> [months |-> 12, acessos |-> 2]]

PlanKeys == DOMAIN PLANS

\* new Date() as [day, ms]: day 0 is 1 January of a year of 365 days
MonthStart == <<0, 31, 59, 90, 120, 151, 181, 212, 243, 273, 304, 334>>

MonthOf(doy) == CHOOSE m \in 1..12 :
                    /\ MonthStart[m] <= doy
                    /\ (m = 12 \/ doy < MonthStart[m + 1])

\* venc.setMonth(venc.getMonth() + months): the day of the month is kept and
\* overflows into the following month when the target month is shorter
SetMonthPlus(d, months) ==
    LET year  == d.day \div 365
        doy   == d.day % 365
        m     == MonthOf(doy)
        dom   == doy - MonthStart[m]
        total == (m - 1) + months
    IN  [day |-> (year + (total \div 12)) * 365 + MonthStart[(total % 12) + 1] + dom,
         ms  |-> d.ms]

NoDate == [day |-> -1, ms |-> 0]

Uids == {"u1", "u2"}

PaymentIds == { <<"9">>, <<"7">> }

\* what paymentApi.get returns for an id: known = FALSE is an id the provider
\* does not have; "" is a metadata field that is not there
PayRecs ==
    [known  : {TRUE},
     status : {"approved", "pending", "rejected"},
     uid    : {"", "u1", "u2"},
     plano  : {"", "mensal", "anual_plus", "gold", "constructor"}]
    \cup { [known |-> FALSE, status |-> "", uid |-> "", plano |-> ""] }

\* the record of payment "7" in every behaviour; that of payment "9" is any
\* of PayRecs
SecondPayment == [known |-> TRUE, status |-> "approved", uid |-> "u1",
                  plano |-> "anual_plus"]

\* pagamento of a user document
NoPagamento == [gateway |-> "", paymentId |-> <<>>, status |-> "", plano |-> "",
                atualizadoEm |-> NoDate]

\* postosPermitidos of a user document that has none
NoList == <<"(none)">>

\* a user document; "missing", "" , -1, NoDate and NoList are fields that are
\* not there
NoDoc == [exists |-> FALSE, autorizado |-> "missing", plano |-> "",
          vencimento |-> NoDate, acessosPermitidos |-> -1,
          pagamento |-> NoPagamento,
          rolePortal |-> "", postosPermitidos |-> NoList,
          atualizadoEm |-> NoDate]

FreshDoc == [NoDoc EXCEPT !.exists = TRUE]

\* a notification as delivered: type and data.id (query or body), and
\* body.topic, body.resource and a status the sender puts in the body; "" and
\* <<>> are fields that are not there
NotifiedStatuses == {"", "approved"}

NotifiedResources == { <<>>, <<"/", "v", "/", "9">> }

Notification(type, topic, dataId, resource, status) ==
    [type |-> type, topic |-> topic, dataId |-> dataId, resource |-> resource,
     status |-> status]

\* the notifications sent to POST /mp/webhook: a payment by data.id, with
\* and without a status of the sender's; one with a resource path or with
\* nothing in place of data.id; one of another type
MpNotifications ==
    { Notification("payment", "", id, <<>>, st) :
          id \in PaymentIds, st \in NotifiedStatuses }
    \cup { Notification("payment", "", <<>>, res, "") : res \in NotifiedResources }
    \cup { Notification("other", "", <<"9">>, <<>>, "") }

\* the notifications sent to POST /webhook/mercadopago: the same, with a
\* merchant_order in place of the other type, and one that has both data.id
\* and a resource path
SyncNotifications ==
    { Notification("", "", id, <<>>, st) :
          id \in PaymentIds, st \in NotifiedStatuses }
    \cup { Notification("", "", <<>>, res, "") : res \in NotifiedResources }
    \cup { Notification("", "merchant_order", <<"9">>, <<>>, ""),
           Notification("", "", <<"7">>, <<"/", "v", "/", "9">>, "") }

NoNotification == [type |-> "", topic |-> "", dataId |-> <<>>, resource |-> <<>>,
                   status |-> ""]

\* a delivery: where its handler is, the notification it handles, the
\* payment id, the status answered (0: none yet), the instant at which the
\* vencimento was computed and that vencimento, the calls and answers in
\* order, and what threw ("" when nothing did)
IdleHook == [pc |-> "idle", n |-> NoNotification, dataId |-> <<>>, status |-> 0,
             at |-> NoDate, venc |-> NoDate, log |-> <<>>, threw |-> ""]

DateSteps == { [day |-> 0, ms |-> 1], [day |-> 1, ms |-> 0] }

\* the webhooks are not running
InitHooksIdle ==
    /\ server = "index"
    /\ mpClient = "null"
    /\ payments = [i \in PaymentIds |-> SecondPayment]
    /\ usuarios = [u \in Uids |-> NoDoc]
    /\ hooks = [sl \in Slots |-> IdleHook]
    /\ date = [day |-> 30, ms |-> 0]
    /\ dateTicks = 0

\* 15 * 60 * 1000, the lifetime POST /signed-urls gives its tokens
SignedUrlTtlMs == 15 * 60 * 1000

FileIds == { <<"a">>, <<"b">>, <<"a", ".", "1">> }

Ttls == {1, SignedUrlTtlMs}

ClockSteps == {1, SignedUrlTtlMs}

NoVerify == [fileId |-> <<>>, token |-> <<>>, at |-> 0, result |-> "none"]

sigOf(token) == Split(token, ".")[2]

expStrOf(token) == Split(token, ".")[1]

(***************************************************************************)
(* Tokens a caller can present: the issued ones, and what can be made of   *)
(* them without the secret.                                                *)
(***************************************************************************)
\* one hex character of the signature replaced by another one
SigTampered(token) ==
    LET sig == sigOf(token)
    IN  { expStrOf(token) \o <<".">> \o [sig EXCEPT ![i] = h] :
              <<i, h>> \in { p \in (1..Len(sig)) \X HexChars : sig[p[1]] # p[2] } }

\* the expiry replaced by another instant, the signature kept
OtherInstants(exp) ==
    ({exp + 1, exp + SignedUrlTtlMs, exp * 10, exp - 1} \ {0, exp})

ExpirySwapped(token, exp) ==
    { ToDecimal(e) \o <<".">> \o sigOf(token) : e \in OtherInstants(exp) }

\* tokens that are not of the form expiresAt.signature
MalformedFrom(token) ==
    LET sig == sigOf(token)
        exp == expStrOf(token)
    IN  { <<>>,                                        \* empty
          exp, exp \o sig, <<"a", "b">>,               \* no '.'
          <<"a", "b", ".">> \o sig,                    \* non-numeric expiry
          <<"e", ".">> \o sig,
          <<"1", "e", ".">> \o sig,
          <<".">> \o sig,
          exp \o <<".">>,                              \* missing signature
          exp \o <<".">> \o SubSeq(sig, 1, Len(sig) - 1),   \* wrong length
          exp \o <<".">> \o sig \o <<"0">>,
          exp \o <<".">> \o <<"f">> }

\* the same expiry number spelled differently, the signature kept
Respelled(token) ==
    { <<"0">> \o token,
      expStrOf(token) \o <<"e", "0", ".">> \o sigOf(token) }

\* further '.'-separated segments appended after the signature
ExtraSegments(token) ==
    { token \o <<".", "x">>, token \o <<".">> }

\* a token signed under a key
ForeignTokens == { signFileUrl("k1", f, now + 1) : f \in FileIds }

BaseTokens == { t.token : t \in issued } \cup
              (IF SIGNING_SECRET = Unset THEN ForeignTokens ELSE {})

Malformed(token) ==
    \/ Len(token) = 0
    \/ LET parts == Split(token, ".")
       IN  \/ Len(parts) < 2
           \/ Len(parts[1]) = 0
           \/ Number(parts[1]).nan
           \/ Len(parts[2]) = 0
           \/ Len(parts[2]) # DigestHexLen

PresentableTokens ==
    BaseTokens
    \cup UNION { SigTampered(t.token) : t \in issued }
    \cup UNION { ExpirySwapped(t.token, t.expiresAt) : t \in issued }
    \cup UNION { MalformedFrom(tok) : tok \in BaseTokens }
    \cup UNION { Respelled(tok) \cup ExtraSegments(tok) : tok \in BaseTokens }

(***************************************************************************)
(* Actions on the pure functions.                                          *)
(***************************************************************************)
\* signFileUrl(fileId, Date.now() + ttl).  signFileUrl is pure and keeps no
\* state: one capability is followed from its issuance through its lifetime.
Issue(fileId, ttl) ==
    /\ SIGNING_SECRET # Unset
    /\ issued = {}
    /\ issued' = issued \cup
          { [fileId    |-> fileId,
             expiresAt |-> now + ttl,
             issuedAt  |-> now,
             token     |-> signFileUrl(SIGNING_SECRET, fileId, now + ttl)] }
    /\ lastVerify' = NoVerify
    /\ UNCHANGED <<uploadVars, accessVars, SIGNING_SECRET, now, ticks, routeVars, hookVars>>

\* the clock advances
Tick(d) ==
    /\ ticks < MaxTicks
    /\ now' = now + d
    /\ ticks' = ticks + 1
    /\ lastVerify' = NoVerify
    /\ UNCHANGED <<uploadVars, accessVars, SIGNING_SECRET, issued, routeVars, hookVars>>

\* verifySignedToken(fileId, token)
VerifyCall ==
    /\ lastVerify = NoVerify
    /\ \E fileId \in FileIds, token \in PresentableTokens :
          lastVerify' = [fileId |-> fileId, token |-> token, at |-> now,
                         result |-> verifySignedToken(SIGNING_SECRET, fileId,
                                                      token, now)]
    /\ UNCHANGED <<uploadVars, accessVars, SIGNING_SECRET, now, ticks, issued, routeVars, hookVars>>

InitBroker ==
    /\ SIGNING_SECRET \in {Unset, "k1"}
    /\ now = 1
    /\ ticks = 0
    /\ issued = {}
    /\ lastVerify = NoVerify

\* the Authorization header starts with "Bearer "; h.slice(7)
BearerPrefix == <<"B", "e", "a", "r", "e", "r", " ">>

StartsWith(str, prefix) ==
    /\ Len(str) >= Len(prefix)
    /\ SubSeq(str, 1, Len(prefix)) = prefix

Slice(str, k) == SubSeq(str, k + 1, Len(str))

\* the Authorization headers sent: none, "Bearer " alone, the identity tokens
\* of u1 and u2, a token the identity service rejects, another scheme
AuthHeaders ==
    { <<>>,
      BearerPrefix,
      BearerPrefix \o <<"1">>,
      BearerPrefix \o <<"2">>,
      BearerPrefix \o <<"x">>,
      <<"B", "a", "s", "i", "c", " ", "1">> }

\* admin.auth().verifyIdToken(token): the uid of the decoded token, "" when
\* the token is rejected
DecodedUid(token) ==
    IF token = <<"1">> THEN "u1"
    ELSE IF token = <<"2">> THEN "u2"
    ELSE ""

AccessBody(targetUid, rolePortal, postosPermitidos) ==
    [targetUid |-> targetUid, rolePortal |-> rolePortal,
     postosPermitidos |-> postosPermitidos]

\* req.body of POST /portal/set-access; "" and NoList are fields that are not
\* there (or, for postosPermitidos, not an array): no target, no role, a role
\* that is not a portal role, and the well-formed bodies
AccessBodies ==
    { AccessBody("", "admin", NoList),
      AccessBody("u2", "", NoList),
      AccessBody("u2", "user", <<"p1">>),
      AccessBody("u2", "admin", <<"p1">>),
      AccessBody("u2", "admin", NoList),
      AccessBody("u2", "super_admin", <<"p1">>),
      AccessBody("u1", "admin", NoList) }

NoBody == [targetUid |-> "", rolePortal |-> "", postosPermitidos |-> NoList]

\* a set-access request: where it is, what it carries, req.user.uid, the
\* role read by requireSuperAdmin, the status answered (0: none yet), the
\* calls made in order, and what threw ("" when nothing did)
IdleAccess == [pc |-> "idle", header |-> <<>>, body |-> NoBody, uid |-> "",
               role |-> "", status |-> 0, log |-> <<>>, threw |-> ""]

\* concurrent upload requests
MaxUploads == 2

UploadSlots == 1..MaxUploads

\* req.file of upload.single("file"): NoFile when the part is missing
NoFile == [originalname |-> "", size |-> 0, mimetype |-> ""]

PhotoFile == [originalname |-> "a.png", size |-> 1, mimetype |-> "image/png"]

\* req.body (and req.file) of an upload; "" is a field that is not there,
\* base64 is TRUE when the field carries data
UploadBody(posto, run, item, mime, base64, file) ==
    [codigoPosto |-> posto, runId |-> run, itemId |-> item, mime |-> mime,
     base64 |-> base64, file |-> file]

Base64Bodies ==
    { UploadBody("p1", "r1", "i1", "image/png", TRUE, NoFile),
      UploadBody("p1", "r1", "i2", "", TRUE, NoFile),
      UploadBody("p1", "r1", "", "image/png", TRUE, NoFile),
      UploadBody("p1", "r1", "i1", "image/png", FALSE, NoFile) }

MultipartBodies ==
    { UploadBody("p1", "r1", "i1", "", FALSE, PhotoFile),
      UploadBody("p1", "", "i1", "", FALSE, PhotoFile),
      UploadBody("p1", "r1", "i1", "", FALSE, NoFile) }

NoUpload == UploadBody("", "", "", "", FALSE, NoFile)

\* the upload routes a server has, and the bodies sent to each
UploadRoutes(srv) ==
    IF srv = "index" THEN {"/upload-foto", "/upload-foto-multipart"}
    ELSE {"/upload-foto"}

BodiesOf(route) ==
    IF route = "/upload-foto" THEN Base64Bodies ELSE MultipartBodies

\* a document of driveFiles; "(absent)" is a field the document lacks
NoRecord == [exists |-> FALSE, codigoPosto |-> "", runId |-> "", itemId |-> "",
             criadoEm |-> NoDate, originalName |-> "(absent)", size |-> 0,
             mime |-> "(absent)"]

\* an upload request: where it is, its route and body, the folder level being
\* resolved (1 CHECKLISTS, 2 codigoPosto, 3 runId), the parent found so far
\* (0: the root), the file id Drive returned, the status answered (0: none
\* yet), the fileId of the response body, and the calls made in order
IdleUpload == [pc |-> "idle", route |-> "", body |-> NoUpload, level |-> 0,
               parent |-> 0, fileId |-> 0, status |-> 0, answered |-> 0,
               log |-> <<>>]

InitUploadsIdle ==
    /\ folders = <<>>
    /\ files = <<>>
    /\ driveFiles = [f \in UploadSlots |-> NoRecord]
    /\ uploads = [sl \in UploadSlots |-> IdleUpload]

NoResponse == [status |-> 0, fileIds |-> <<>>, isArray |-> TRUE, at |-> 0,
               urls |-> {}]

IdleReq == [pc |-> "idle", url |-> <<>>, at |-> 0, fileId |-> <<>>,
            token |-> <<>>, verify |-> "none", storeCalls |-> <<>>,
            headersSent |-> FALSE, statuses |-> <<>>, chunks |-> 0]

InitRoutes ==
    /\ urlsRes = NoResponse
    /\ req = IdleReq
    /\ access = IdleAccess
    /\ InitUploadsIdle

InitVerify == InitBroker /\ InitRoutes /\ InitHooksIdle

NextVerify ==
    \/ \E f \in FileIds, ttl \in Ttls : Issue(f, ttl)
    \/ \E d \in ClockSteps : Tick(d)
    \/ VerifyCall

SpecVerify == InitVerify /\ [][NextVerify]_vars

(***************************************************************************)
(* URLs.  A URL is modelled by what follows `${PUBLIC_BASE_URL}/drive-file/`*)
(* in it: the path segment, and the query string after the first "?".      *)
(***************************************************************************)
\* encodeURIComponent: unreserved characters stay, the others become %XX
EncodeChar(c) ==
    CASE c = "?" -> <<"%", "3", "F">>
      [] c = "=" -> <<"%", "3", "D">>
      [] c = "&" -> <<"%", "2", "6">>
      [] c = "%" -> <<"%", "2", "5">>
      [] OTHER   -> <<c>>

RECURSIVE encodeURIComponent(_)
encodeURIComponent(str) ==
    IF Len(str) = 0 THEN <<>>
    ELSE EncodeChar(Head(str)) \o encodeURIComponent(Tail(str))

DecodeHex(h) ==
    CASE h = <<"3", "F">> -> "?"
      [] h = <<"3", "D">> -> "="
      [] h = <<"2", "6">> -> "&"
      [] h = <<"2", "5">> -> "%"
      [] OTHER            -> "~"

\* decodeURIComponent, as Express applies it to a path parameter and to a
\* query value
RECURSIVE decodeURIComponent(_)
decodeURIComponent(str) ==
    IF Len(str) = 0 THEN <<>>
    ELSE IF Head(str) = "%" /\ Len(str) >= 3
         THEN <<DecodeHex(SubSeq(str, 2, 3))>> \o
              decodeURIComponent(SubSeq(str, 4, Len(str)))
         ELSE <<Head(str)>> \o decodeURIComponent(Tail(str))

HasChar(str, c) == \E i \in 1..Len(str) : str[i] = c

FirstIndex(str, c) == CHOOSE i \in 1..Len(str) :
                          str[i] = c /\ \A j \in 1..(i - 1) : str[j] # c

\* `${PUBLIC_BASE_URL}/drive-file/${id}?t=${encodeURIComponent(token)}`
SignedUrl(id, token) == id \o <<"?", "t", "=">> \o encodeURIComponent(token)

\* `${PUBLIC_BASE_URL}/drive-file/${id}`
PlainUrl(id) == id

\* req.query.t of a query string: the value of the first pair whose key is t
QueryT(query) ==
    LET pairs == Split(query, "&")
        isT(i) == /\ HasChar(pairs[i], "=")
                  /\ SubSeq(pairs[i], 1, FirstIndex(pairs[i], "=") - 1) = <<"t">>
    IN  IF \E i \in 1..Len(pairs) : isT(i)
        THEN LET k == CHOOSE i \in 1..Len(pairs) :
                          isT(i) /\ \A j \in 1..(i - 1) : ~isT(j)
                 v == pairs[k]
             IN  decodeURIComponent(SubSeq(v, FirstIndex(v, "=") + 1, Len(v)))
        ELSE <<>>

\* what the route /drive-file/:id receives for a URL:
\* req.params.id and String(req.query.t || "")
ParseRequest(url) ==
    LET hasQ  == HasChar(url, "?")
        path  == IF hasQ THEN SubSeq(url, 1, FirstIndex(url, "?") - 1) ELSE url
        query == IF hasQ THEN SubSeq(url, FirstIndex(url, "?") + 1, Len(url))
                 ELSE <<>>
    IN  [routed |-> Len(path) > 0,
         id     |-> decodeURIComponent(path),
         token  |-> QueryT(query)]

(***************************************************************************)
(* POST /signed-urls and GET /drive-file/:id of the signed server          *)
(* (src/index.js, src/unnamed/part_000).                                   *)
(***************************************************************************)
\* ids a client puts in fileIds; the empty string is falsy and is skipped
RouteIds == { <<"a">>, <<"b">>, <<"a", "?">> }

\* longest fileIds array
MaxBatch == 2

\* chunks of a file the store streams
MaxChunks == 1

Batches == UNION { [1..n -> RouteIds \cup {<<>>}] : n \in 0..MaxBatch }

\* req.body of POST /signed-urls: fileIds is an array, or it is not
SignedUrlBodies ==
    { [isArray |-> TRUE, fileIds |-> b] : b \in Batches }
    \cup { [isArray |-> FALSE, fileIds |-> <<>>] }

\* POST /signed-urls of src/index.js
SignedUrls ==
    /\ \E body \in SignedUrlBodies :
          urlsRes' =
             IF ~body.isArray
             THEN [NoResponse EXCEPT !.status = 400, !.isArray = FALSE, !.at = now]
             ELSE IF SIGNING_SECRET = Unset
             THEN [NoResponse EXCEPT !.status = 500, !.fileIds = body.fileIds,
                                     !.at = now]
             ELSE LET expiresAt == now + SignedUrlTtlMs
                  IN  [status  |-> 200,
                       fileIds |-> body.fileIds,
                       isArray |-> TRUE,
                       at      |-> now,
                       urls    |-> { [id  |-> body.fileIds[i],
                                      url |-> SignedUrl(body.fileIds[i],
                                                 signFileUrl(SIGNING_SECRET,
                                                     body.fileIds[i], expiresAt))] :
                                       i \in { j \in 1..Len(body.fileIds) :
                                                  body.fileIds[j] # <<>> } }]
    /\ UNCHANGED <<uploadVars, accessVars, brokerVars, req, hookVars>>

\* the URLs a client requests: those it was given, and ones it makes up
ReturnedUrls == { u.url : u \in urlsRes.urls }

ReturnedTokens == { ParseRequest(u).token : u \in ReturnedUrls }

RequestUrls ==
    ReturnedUrls
    \cup { SignedUrl(f, tok) : f \in { <<"a">>, <<"b">> },
                               tok \in ReturnedTokens \cup
                                       { <<"1", ".", "f">>, <<"x">> } }
    \cup { PlainUrl(f) : f \in { <<"a">>, <<"b">> } }

Sent(r, status) ==
    [r EXCEPT !.statuses = Append(@, status), !.headersSent = TRUE]

\* GET /drive-file/:id of src/index.js, up to the first await
DriveFileBegin ==
    /\ req.pc \in {"idle", "done", "broken"}
    /\ \E url \in RequestUrls :
          LET p == ParseRequest(url)
              r == [IdleReq EXCEPT !.url = url, !.at = now, !.fileId = p.id,
                                   !.token = p.token]
              v == verifySignedToken(SIGNING_SECRET, p.id, p.token, now)
          IN  /\ p.routed
              /\ req' =
                   IF SIGNING_SECRET = Unset
                   THEN [Sent(r, 500) EXCEPT !.pc = "done"]
                   ELSE IF v = "throws"
                   THEN [Sent(r, 404) EXCEPT !.pc = "done", !.verify = v]
                   ELSE IF v # "true"
                   THEN [Sent(r, 403) EXCEPT !.pc = "done", !.verify = v]
                   ELSE [r EXCEPT !.pc = "meta", !.verify = v,
                                  !.storeCalls = <<[op |-> "meta", fileId |-> p.id]>>]
    /\ UNCHANGED <<uploadVars, accessVars, brokerVars, urlsRes, hookVars>>

\* drive.files.get({fileId, fields}) returns or throws
DriveMetaReturns ==
    /\ req.pc = "meta"
    /\ \E ok \in BOOLEAN :
          req' = IF ok
                 THEN [req EXCEPT !.pc = "media",
                                  !.storeCalls = Append(@, [op |-> "media",
                                                            fileId |-> req.fileId])]
                 ELSE [Sent(req, 404) EXCEPT !.pc = "done"]
    /\ UNCHANGED <<uploadVars, accessVars, brokerVars, urlsRes, hookVars>>

\* drive.files.get({fileId, alt: "media"}) returns the stream or throws
DriveMediaReturns ==
    /\ req.pc = "media"
    /\ \E ok \in BOOLEAN :
          req' = IF ok THEN [req EXCEPT !.pc = "piping"]
                 ELSE [Sent(req, 404) EXCEPT !.pc = "done"]
    /\ UNCHANGED <<uploadVars, accessVars, brokerVars, urlsRes, hookVars>>

\* file.data.pipe(res): a chunk is written, the first one sends the head
DrivePipeData ==
    /\ req.pc = "piping"
    /\ req.chunks < MaxChunks
    /\ req' = [(IF req.headersSent THEN req ELSE Sent(req, 200))
                  EXCEPT !.chunks = @ + 1]
    /\ UNCHANGED <<uploadVars, accessVars, brokerVars, urlsRes, hookVars>>

\* the stream ends: pipe ends the response
DriveStreamEnd ==
    /\ req.pc = "piping"
    /\ req' = [(IF req.headersSent THEN req ELSE Sent(req, 200))
                  EXCEPT !.pc = "done"]
    /\ UNCHANGED <<uploadVars, accessVars, brokerVars, urlsRes, hookVars>>

\* file.data.on("error"): res.sendStatus(500); once the head is out the
\* status is attempted again and the response is not completed
DriveStreamError ==
    /\ req.pc = "piping"
    /\ req' = [Sent(req, 500) EXCEPT !.pc = IF req.headersSent THEN "broken"
                                            ELSE "done"]
    /\ UNCHANGED <<uploadVars, accessVars, brokerVars, urlsRes, hookVars>>

ClockTick ==
    /\ \E d \in ClockSteps : Tick(d)

InitSigned == InitBroker /\ InitRoutes /\ InitHooksIdle

NextSigned ==
    \/ SignedUrls
    \/ DriveFileBegin
    \/ DriveMetaReturns
    \/ DriveMediaReturns
    \/ DrivePipeData
    \/ DriveStreamEnd
    \/ DriveStreamError
    \/ ClockTick

SpecSigned == InitSigned /\ [][NextSigned]_vars

(***************************************************************************)
(* POST /signed-urls and GET /drive-file/:id of the servers of             *)
(* src/driveAuth.js, which sign nothing.                                   *)
(***************************************************************************)
\* POST /signed-urls of src/driveAuth.js
UnsignedUrls ==
    /\ \E body \in SignedUrlBodies :
          urlsRes' =
             IF ~body.isArray
             THEN [NoResponse EXCEPT !.status = 400, !.isArray = FALSE, !.at = now]
             ELSE [status  |-> 200,
                   fileIds |-> body.fileIds,
                   isArray |-> TRUE,
                   at      |-> now,
                   urls    |-> { [id  |-> body.fileIds[i],
                                  url |-> PlainUrl(body.fileIds[i])] :
                                   i \in { j \in 1..Len(body.fileIds) :
                                              body.fileIds[j] # <<>> } }]
    /\ UNCHANGED <<uploadVars, accessVars, brokerVars, req, hookVars>>

\* GET /drive-file/:id of src/driveAuth.js, up to the first await
UnsignedDriveFileBegin ==
    /\ req.pc \in {"idle", "done", "broken"}
    /\ \E url \in RequestUrls :
          LET p == ParseRequest(url)
          IN  /\ p.routed
              /\ req' = [IdleReq EXCEPT
                            !.url = url, !.at = now, !.fileId = p.id,
                            !.token = p.token, !.pc = "meta",
                            !.storeCalls = <<[op |-> "meta", fileId |-> p.id]>>]
    /\ UNCHANGED <<uploadVars, accessVars, brokerVars, urlsRes, hookVars>>

InitUnsigned == InitBroker /\ InitRoutes /\ InitHooksIdle

NextUnsigned ==
    \/ UnsignedUrls
    \/ UnsignedDriveFileBegin
    \/ DriveMetaReturns
    \/ DriveMediaReturns
    \/ DrivePipeData
    \/ DriveStreamEnd
    \/ DriveStreamError
    \/ ClockTick

SpecUnsigned == InitUnsigned /\ [][NextUnsigned]_vars

(***************************************************************************)
(* Payment webhooks.  Every await is a step of its own: the provider fetch *)
(* and the store calls return, or throw, in a later step than the one that *)
(* issued them.                                                            *)
(***************************************************************************)
\* PLANS[key] of a plain object: a catalog entry, a property every object
\* inherits (truthy, without months or acessos), or undefined
InheritedKeys == {"constructor"}

Lookup(key) ==
    IF key \in PlanKeys THEN "entry"
    ELSE IF key \in InheritedKeys THEN "inherited"
    ELSE "undefined"

\* res.sendStatus(code), res.status(code).json(..)
Answer(h, code) ==
    [h EXCEPT !.status = code,
              !.log = Append(@, IF code = 200 THEN "ack200" ELSE "res500")]

Called(h, what, pc) == [h EXCEPT !.log = Append(@, what), !.pc = pc]

Done(h) == [h EXCEPT !.pc = "done"]

Threw(h, what) == [h EXCEPT !.threw = what]

\* res.sendStatus(200), then new Payment(mpClient).get(..)
FetchThenAck(h) == Answer(Called(h, "fetch", "fetch"), 200)

AckThenFetch(h) == Called(Answer(h, 200), "fetch", "fetch")

\* what a fetch of payment id can do: return the record, fail with
\* not_found for an id the provider does not have, or fail otherwise
FetchOutcomes(id) ==
    IF payments[id].known THEN {"ok", "error"} ELSE {"not_found", "error"}

\* a window that starts where the last one ends
LastExpiryOrToday ==
    IF usuarios["u1"].vencimento # NoDate THEN usuarios["u1"].vencimento
    ELSE date

\* const now = new Date(); const vencimento = new Date(): the window starts
\* at the instant of processing
Today == date

\* calcVencimentoByPlano(planoKey) of src/index.js
calcVencimentoByPlano(planoKey, today) ==
    LET months  == IF Lookup(planoKey) = "entry" THEN PLANS[planoKey].months ELSE 1
        acessos == IF Lookup(planoKey) = "entry" THEN PLANS[planoKey].acessos ELSE 1
    IN  [venc |-> SetMonthPlus(today, months), months |-> months,
         acessos |-> acessos]

\* a handler that takes the status the notification carries, when it
\* carries one
NotifiedStatus(pay, n) == IF n.status # "" THEN n.status ELSE pay.status

\* const status = pay?.status; result.status: the status the handlers act
\* on is the one of the record fetched from the provider
TrustedStatus(pay, n) == pay.status

\* String(plano || "mensal")
PatchPlano(plano) == IF plano = "" THEN "mensal" ELSE plano

\* userRef.set(patch, { merge: true }) of POST /mp/webhook: the document is
\* created when it is not there, the fields of the patch replace the
\* document's, the other fields stay
MergePatch(doc, id, venc, today, status) ==
    LET pay  == payments[id]
        base == [doc EXCEPT
                    !.exists    = TRUE,
                    !.pagamento = [@ EXCEPT !.gateway = "MERCADO_PAGO",
                                            !.paymentId = id,
                                            !.status = status,
                                            !.atualizadoEm = today]]
    IN  IF status = "approved"
        THEN [base EXCEPT
                 !.autorizado = "true",
                 !.plano = PatchPlano(pay.plano),
                 !.vencimento = venc,
                 !.acessosPermitidos =
                     calcVencimentoByPlano(pay.plano, today).acessos]
        ELSE base

\* POST /mp/webhook of src/index.js, up to the first await
MpWebhookBegin ==
    /\ server = "index"
    /\ \E sl \in DOMAIN hooks, n \in MpNotifications :
          /\ hooks[sl].pc \in {"idle", "done"}
          /\ hooks' = [hooks EXCEPT ![sl] =
                LET h == [IdleHook EXCEPT !.n = n, !.dataId = n.dataId]
                IN  IF mpClient = "null" THEN Done(Answer(h, 500))
                    ELSE IF n.type # "payment" \/ n.dataId = <<>>
                    THEN Done(Answer(h, 200))
                    ELSE AckThenFetch(h)]
    /\ UNCHANGED <<uploadVars, accessVars, brokerVars, routeVars, server, mpClient, payments, usuarios,
                   date, dateTicks>>

\* paymentApi.get returns or throws; the patch is built and userRef.set called
MpFetchReturns ==
    /\ server = "index"
    /\ \E sl \in DOMAIN hooks :
          /\ hooks[sl].pc = "fetch"
          /\ \E outcome \in FetchOutcomes(hooks[sl].dataId) :
                hooks' = [hooks EXCEPT ![sl] =
                   LET pay == payments[hooks[sl].dataId]
                   IN  IF outcome # "ok" THEN Done(Threw(@, outcome))
                       ELSE IF pay.uid = "" THEN Done(@)
                       ELSE Called([@ EXCEPT !.at = date, !.venc =
                                       calcVencimentoByPlano(pay.plano, Today).venc],
                                   "write", "write")]
    /\ UNCHANGED <<uploadVars, accessVars, brokerVars, routeVars, server, mpClient, payments, usuarios,
                   date, dateTicks>>

\* userRef.set(patch, { merge: true }) takes effect, or throws
MpSetCompletes ==
    /\ server = "index"
    /\ \E sl \in DOMAIN hooks, ok \in BOOLEAN :
          /\ hooks[sl].pc = "write"
          /\ LET uid == payments[hooks[sl].dataId].uid
             IN  usuarios' = IF ok
                             THEN [usuarios EXCEPT ![uid] =
                                      MergePatch(@, hooks[sl].dataId,
                                                 hooks[sl].venc, date,
                                                 TrustedStatus(
                                                    payments[hooks[sl].dataId],
                                                    hooks[sl].n))]
                             ELSE usuarios
          /\ hooks' = [hooks EXCEPT ![sl] =
                          IF ok THEN Done(@) ELSE Done(Threw(@, "set"))]
    /\ UNCHANGED <<uploadVars, accessVars, brokerVars, routeVars, server, mpClient, payments, date,
                   dateTicks>>

\* paymentId of POST /webhook/mercadopago: data.id, or the last segment of
\* the path in resource
PaymentIdOf(n) ==
    IF n.dataId # <<>> THEN n.dataId
    ELSE IF n.resource # <<>>
         THEN LET parts == Split(n.resource, "/") IN parts[Len(parts)]
         ELSE <<>>

\* POST /webhook/mercadopago of src/driveAuth.js, up to the first await
SyncWebhookBegin ==
    /\ server \in {"driveAuthA", "driveAuthB"}
    /\ \E sl \in DOMAIN hooks, n \in SyncNotifications :
          /\ hooks[sl].pc \in {"idle", "done"}
          /\ PaymentIdOf(n) \in PaymentIds \cup {<<>>}
          /\ hooks' = [hooks EXCEPT ![sl] =
                LET h == [IdleHook EXCEPT !.n = n, !.dataId = PaymentIdOf(n)]
                IN  IF n.topic = "merchant_order" THEN Done(Answer(h, 200))
                    ELSE IF PaymentIdOf(n) = <<>> THEN Done(Answer(h, 200))
                    ELSE Called(h, "fetch", "fetch")]
    /\ UNCHANGED <<uploadVars, accessVars, brokerVars, routeVars, server, mpClient, payments, usuarios,
                   date, dateTicks>>

\* the catch around payment.get, without the not_found case
FetchFailureRethrown(srv, outcome) == IF srv = "driveAuthA" THEN 500 ELSE 200

\* the catch around payment.get: the first server answers 200 to not_found
\* and rethrows the rest (500), the second answers 200 to everything
FetchFailureStatus(srv, outcome) ==
    IF outcome = "not_found" THEN 200
    ELSE IF srv = "driveAuthA" THEN 500
    ELSE 200

\* payment.get returns or throws; the checks up to userRef.get
SyncFetchReturns ==
    /\ server \in {"driveAuthA", "driveAuthB"}
    /\ \E sl \in DOMAIN hooks :
          /\ hooks[sl].pc = "fetch"
          /\ \E outcome \in FetchOutcomes(hooks[sl].dataId) :
                hooks' = [hooks EXCEPT ![sl] =
                   LET pay == payments[hooks[sl].dataId]
                   IN  IF outcome # "ok"
                       THEN Done(Answer(Threw(@, outcome),
                                        FetchFailureStatus(server, outcome)))
                       ELSE IF TrustedStatus(pay, hooks[sl].n) # "approved"
                       THEN Done(Answer(@, 200))
                       ELSE IF pay.uid = "" THEN Done(Answer(@, 200))
                       ELSE IF Lookup(pay.plano) = "undefined"
                       THEN Done(Answer(@, 200))
                       ELSE Called(@, "get", "get")]
    /\ UNCHANGED <<uploadVars, accessVars, brokerVars, routeVars, server, mpClient, payments, usuarios,
                   date, dateTicks>>

\* userRef.get returns or throws; vencimento is computed and userRef.update
\* called.  An inherited plan key gives a patch with undefined fields, which
\* update refuses before anything is sent to the store.
SyncGetReturns ==
    /\ server \in {"driveAuthA", "driveAuthB"}
    /\ \E sl \in DOMAIN hooks, ok \in BOOLEAN :
          /\ hooks[sl].pc = "get"
          /\ hooks' = [hooks EXCEPT ![sl] =
                LET pay == payments[hooks[sl].dataId]
                IN  IF ~ok THEN Done(Answer(Threw(@, "get"), 500))
                    ELSE IF ~usuarios[pay.uid].exists THEN Done(Answer(@, 200))
                    ELSE IF Lookup(pay.plano) # "entry"
                    THEN Done(Answer(Threw(@, "update"), 500))
                    ELSE Called([@ EXCEPT !.at = date, !.venc =
                                    SetMonthPlus(Today, PLANS[pay.plano].months)],
                                "write", "write")]
    /\ UNCHANGED <<uploadVars, accessVars, brokerVars, routeVars, server, mpClient, payments, usuarios,
                   date, dateTicks>>

\* userRef.update({...}): the named fields are replaced, pagamento as a whole
UpdatePatch(doc, id, venc) ==
    LET pay == payments[id]
    IN  [doc EXCEPT
           !.plano = pay.plano,
           !.acessosPermitidos = PLANS[pay.plano].acessos,
           !.autorizado = "true",
           !.vencimento = venc,
           !.pagamento = [gateway |-> "MERCADO_PAGO", status |-> "APPROVED",
                          paymentId |-> id, plano |-> pay.plano,
                          atualizadoEm |-> NoDate]]

\* userRef.update takes effect and 200 is answered, or it throws (also when
\* the document is not there) and 500 is answered
SyncUpdateCompletes ==
    /\ server \in {"driveAuthA", "driveAuthB"}
    /\ \E sl \in DOMAIN hooks, ok \in BOOLEAN :
          /\ hooks[sl].pc = "write"
          /\ LET uid     == payments[hooks[sl].dataId].uid
                 applies == ok /\ usuarios[uid].exists
             IN  /\ usuarios' = IF applies
                                THEN [usuarios EXCEPT ![uid] =
                                         UpdatePatch(@, hooks[sl].dataId,
                                                     hooks[sl].venc)]
                                ELSE usuarios
                 /\ hooks' = [hooks EXCEPT ![sl] =
                                 IF applies THEN Done(Answer(@, 200))
                                 ELSE Done(Answer(Threw(@, "update"), 500))]
    /\ UNCHANGED <<uploadVars, accessVars, brokerVars, routeVars, server, mpClient, payments, date,
                   dateTicks>>

\* the date advances
DateTick ==
    /\ dateTicks < MaxDateTicks
    /\ \E d \in DateSteps :
          date' = [day |-> date.day + d.day, ms |-> date.ms + d.ms]
    /\ dateTicks' = dateTicks + 1
    /\ UNCHANGED <<uploadVars, accessVars, brokerVars, routeVars, server, mpClient, payments, usuarios,
                   hooks>>

\* src/index.js warns and goes on when MP_ACCESS_TOKEN is unset;
\* src/driveAuth.js throws at start (mustEnv), so it runs with a client
InitHooks ==
    /\ server \in {"index", "driveAuthA", "driveAuthB"}
    /\ mpClient \in (IF server = "index" THEN {"null", "client"} ELSE {"client"})
    /\ payments \in { f \in [PaymentIds -> PayRecs] : f[<<"7">>] = SecondPayment }
    /\ usuarios = [u \in Uids |-> IF u = "u1" THEN FreshDoc ELSE NoDoc]
    /\ hooks = [sl \in Slots |-> IdleHook]
    /\ date = [day |-> 30, ms |-> 0]
    /\ dateTicks = 0

InitWebhook ==
    /\ InitHooks
    /\ InitRoutes
    /\ SIGNING_SECRET = Unset
    /\ now = 1
    /\ ticks = 0
    /\ issued = {}
    /\ lastVerify = NoVerify

NextWebhook ==
    \/ MpWebhookBegin
    \/ MpFetchReturns
    \/ MpSetCompletes
    \/ SyncWebhookBegin
    \/ SyncFetchReturns
    \/ SyncGetReturns
    \/ SyncUpdateCompletes
    \/ DateTick

SpecWebhook == InitWebhook /\ [][NextWebhook]_vars

\* deliveries in flight at the same time when deliveries race
RaceDeliveries == 2

\* payment "9" when deliveries race: for the user of payment "7", approved
\* or still pending
RacePayments ==
    { [known |-> TRUE, status |-> st, uid |-> "u1", plano |-> "mensal"] :
          st \in {"approved", "pending"} }

\* the webhooks with RaceDeliveries requests in flight
InitRace ==
    /\ server \in {"index", "driveAuthA", "driveAuthB"}
    /\ mpClient = "client"
    /\ payments \in { f \in [PaymentIds -> RacePayments \cup {SecondPayment}] :
                          /\ f[<<"9">>] \in RacePayments
                          /\ f[<<"7">>] = SecondPayment }
    /\ usuarios = [u \in Uids |-> IF u = "u1" THEN FreshDoc ELSE NoDoc]
    /\ hooks = [sl \in 1..RaceDeliveries |-> IdleHook]
    /\ date = [day |-> 30, ms |-> 0]
    /\ dateTicks = 0
    /\ InitRoutes
    /\ SIGNING_SECRET = Unset
    /\ now = 1
    /\ ticks = 0
    /\ issued = {}
    /\ lastVerify = NoVerify

SpecRace == InitRace /\ [][NextWebhook]_vars

(***************************************************************************)
(* POST /portal/set-access of src/index.js, behind requireFirebaseAuth and *)
(* requireSuperAdmin.  Every await is a step of its own.                   *)
(***************************************************************************)
\* res.status(code).json(..), res.json({ ok: true })
Respond(a, code) == [a EXCEPT !.status = code, !.pc = "done"]

\* const token = h.startsWith("Bearer ") ? h.slice(7) : null
BearerToken(header) ==
    IF StartsWith(header, BearerPrefix) THEN Slice(header, 7) ELSE <<>>

\* requireSuperAdmin letting every portal role through
IsAnyAdmin(role) == role \in {"admin", "super_admin"}

\* role !== "super_admin" answers 403
IsSuperAdmin(role) == role = "super_admin"

\* Array.isArray(postosPermitidos) ? postosPermitidos.map(String) : []
Lista(postos) == IF postos = NoList THEN <<>> ELSE postos

\* .set(patch) without merge: the document is replaced by the patch
SetAccessReplace(doc, body, today) ==
    [NoDoc EXCEPT
        !.exists = TRUE,
        !.rolePortal = body.rolePortal,
        !.postosPermitidos = IF body.rolePortal = "super_admin" THEN <<>>
                             ELSE Lista(body.postosPermitidos),
        !.atualizadoEm = today]

\* .set(patch, { merge: true }) of set-access: the document is created when
\* it is not there; rolePortal, postosPermitidos and atualizadoEm are
\* replaced, the other fields stay
SetAccessPatch(doc, body, today) ==
    [doc EXCEPT
        !.exists = TRUE,
        !.rolePortal = body.rolePortal,
        !.postosPermitidos = IF body.rolePortal = "super_admin" THEN <<>>
                             ELSE Lista(body.postosPermitidos),
        !.atualizadoEm = today]

\* requireFirebaseAuth, up to await verifyIdToken
AccessBegin ==
    /\ access.pc \in {"idle", "done"}
    /\ \E header \in AuthHeaders, body \in AccessBodies :
          access' =
             LET a == [IdleAccess EXCEPT !.header = header, !.body = body]
             IN  IF BearerToken(header) = <<>> THEN Respond(a, 401)
                 ELSE [a EXCEPT !.pc = "verify",
                                !.log = Append(@, "verifyIdToken")]
    /\ UNCHANGED <<uploadVars, brokerVars, urlsRes, req, hookVars>>

\* verifyIdToken returns or throws; requireSuperAdmin up to await get
AccessVerifyReturns ==
    /\ access.pc = "verify"
    /\ \E ok \in BOOLEAN :
          access' =
             LET uid == DecodedUid(BearerToken(access.header))
             IN  IF ~ok \/ uid = ""
                 THEN Respond([access EXCEPT !.threw = "verifyIdToken"], 401)
                 ELSE [access EXCEPT !.uid = uid, !.pc = "role",
                                     !.log = Append(@, "get")]
    /\ UNCHANGED <<uploadVars, brokerVars, urlsRes, req, hookVars>>

\* the get of requireSuperAdmin returns or throws; the handler up to await set
AccessRoleReturns ==
    /\ access.pc = "role"
    /\ \E ok \in BOOLEAN :
          access' =
             LET doc  == usuarios[access.uid]
                 role == IF doc.exists THEN doc.rolePortal ELSE ""
                 a    == [access EXCEPT !.role = role]
             IN  IF ~ok THEN Respond([access EXCEPT !.threw = "get"], 500)
                 ELSE IF ~IsSuperAdmin(role) THEN Respond(a, 403)
                 ELSE IF a.body.targetUid = "" THEN Respond(a, 400)
                 ELSE IF a.body.rolePortal \notin {"admin", "super_admin"}
                 THEN Respond(a, 400)
                 ELSE [a EXCEPT !.pc = "write", !.log = Append(@, "set")]
    /\ UNCHANGED <<uploadVars, brokerVars, urlsRes, req, hookVars>>

\* set(patch, { merge: true }) takes effect and { ok: true } is answered, or
\* it throws and 500 is answered
AccessSetCompletes ==
    /\ access.pc = "write"
    /\ \E ok \in BOOLEAN :
          /\ usuarios' = IF ok
                         THEN [usuarios EXCEPT ![access.body.targetUid] =
                                  SetAccessPatch(@, access.body, date)]
                         ELSE usuarios
          /\ access' = IF ok THEN Respond(access, 200)
                       ELSE Respond([access EXCEPT !.threw = "set"], 500)
    /\ UNCHANGED <<uploadVars, brokerVars, urlsRes, req, server, mpClient, payments, hooks,
                   date, dateTicks>>

\* the roles u1 can have in the store when the server starts
StoredRoles == {"", "admin", "super_admin"}

InitAccess ==
    /\ SIGNING_SECRET = Unset
    /\ now = 1
    /\ ticks = 0
    /\ issued = {}
    /\ lastVerify = NoVerify
    /\ InitRoutes
    /\ server = "index"
    /\ mpClient = "null"
    /\ payments = [i \in PaymentIds |-> SecondPayment]
    /\ \E r \in StoredRoles :
          usuarios = [u \in Uids |->
                         IF u = "u1" THEN [FreshDoc EXCEPT !.rolePortal = r]
                         ELSE NoDoc]
    /\ hooks = [sl \in Slots |-> IdleHook]
    /\ date = [day |-> 30, ms |-> 0]
    /\ dateTicks = 0

NextAccess ==
    \/ AccessBegin
    \/ AccessVerifyReturns
    \/ AccessRoleReturns
    \/ AccessSetCompletes
    \/ DateTick

SpecAccess == InitAccess /\ [][NextAccess]_vars

(***************************************************************************)
(* POST /mp/webhook and POST /portal/set-access of src/index.js served by  *)
(* the same process, on the same collection "usuarios"; the date stays at  *)
(* the day the process started.                                            *)
(***************************************************************************)
InitShared ==
    /\ SIGNING_SECRET = Unset
    /\ now = 1
    /\ ticks = 0
    /\ issued = {}
    /\ lastVerify = NoVerify
    /\ InitRoutes
    /\ server = "index"
    /\ mpClient = "client"
    /\ payments \in { f \in [PaymentIds -> RacePayments \cup {SecondPayment}] :
                          /\ f[<<"9">>] \in RacePayments
                          /\ f[<<"7">>] = SecondPayment }
    /\ usuarios = [u \in Uids |->
                      IF u = "u1"
                      THEN [FreshDoc EXCEPT !.rolePortal = "super_admin"]
                      ELSE NoDoc]
    /\ hooks = [sl \in Slots |-> IdleHook]
    /\ date = [day |-> 30, ms |-> 0]
    /\ dateTicks = 0

NextShared ==
    \/ MpWebhookBegin
    \/ MpFetchReturns
    \/ MpSetCompletes
    \/ AccessBegin
    \/ AccessVerifyReturns
    \/ AccessRoleReturns
    \/ AccessSetCompletes

SpecShared == InitShared /\ [][NextShared]_vars

(***************************************************************************)
(* The webhooks facing a provider that delivers the notification of the    *)
(* approved payment "7" and delivers it again after every answer other     *)
(* than 200.  Every awaited call returns or throws in the end and the      *)
(* provider does deliver, hence the weak fairness of the steps.            *)
(***************************************************************************)
ProviderDelivers ==
    /\ \A sl \in DOMAIN hooks :
          \/ hooks[sl].pc = "idle"
          \/ hooks[sl].pc = "done" /\ hooks[sl].status # 200
    /\ (MpWebhookBegin \/ SyncWebhookBegin)
    /\ \A sl \in DOMAIN hooks :
          hooks'[sl].pc = "fetch" /\ hooks'[sl].dataId = <<"7">>

InitRedeliver ==
    /\ SIGNING_SECRET = Unset
    /\ now = 1
    /\ ticks = 0
    /\ issued = {}
    /\ lastVerify = NoVerify
    /\ InitRoutes
    /\ server \in {"index", "driveAuthA", "driveAuthB"}
    /\ mpClient = "client"
    /\ payments = [i \in PaymentIds |-> SecondPayment]
    /\ usuarios = [u \in Uids |-> IF u = "u1" THEN FreshDoc ELSE NoDoc]
    /\ hooks = [sl \in Slots |-> IdleHook]
    /\ date = [day |-> 30, ms |-> 0]
    /\ dateTicks = 0

NextRedeliver ==
    \/ ProviderDelivers
    \/ MpFetchReturns
    \/ MpSetCompletes
    \/ SyncFetchReturns
    \/ SyncGetReturns
    \/ SyncUpdateCompletes
    \/ DateTick

SpecRedeliver ==
    InitRedeliver /\ [][NextRedeliver]_vars /\ WF_vars(NextRedeliver)

(***************************************************************************)
(* POST /upload-foto and POST /upload-foto-multipart.                      *)
(***************************************************************************)
\* the answer of an upload: its status and, with 200, the { fileId } body
UploadAnswer(u, code, fileId) ==
    [u EXCEPT !.status = code, !.answered = fileId, !.pc = "done"]

\* the name findOrCreateFolder is called with at each level
FolderName(u) ==
    IF u.level = 1 THEN "CHECKLISTS"
    ELSE IF u.level = 2 THEN u.body.codigoPosto
    ELSE u.body.runId

\* drive.files.list with q: the non-trashed folders of that name under that
\* parent
ListFolders(name, parentId) ==
    { i \in 1..Len(folders) :
         folders[i].name = name /\ folders[i].parent = parentId }

\* findOrCreateFolder returned id: the next level is resolved under it, or
\* after the third level the file is uploaded into it
FolderResolved(u, id) ==
    IF u.level = 3
    THEN [u EXCEPT !.parent = id, !.pc = "upload", !.log = Append(@, "upload")]
    ELSE [u EXCEPT !.parent = id, !.level = @ + 1, !.pc = "list",
                   !.log = Append(@, "list")]

\* the mime the file extension is chosen from
MimeOf(u) ==
    IF u.route = "/upload-foto" THEN u.body.mime
    ELSE IF u.body.file.mimetype = "" THEN "image/jpeg"
    ELSE u.body.file.mimetype

\* mime === "image/png" ? "png" : mime === "image/webp" ? "webp" : "jpg";
\* the first server of driveAuth.js tests (mime || "image/jpeg")
\* .toLowerCase().includes(...) instead, which agrees on these mimes
Ext(mime) ==
    IF mime = "image/png" THEN "png"
    ELSE IF mime = "image/webp" THEN "webp"
    ELSE "jpg"

\* `${itemId}_${Date.now()}.${ext}`
Filename(u, clock) == [item |-> u.body.itemId, at |-> clock, ext |-> Ext(MimeOf(u))]

\* the document the handler writes to driveFiles
FileRecord(u, today) ==
    IF u.route = "/upload-foto"
    THEN [NoRecord EXCEPT !.exists = TRUE,
                          !.codigoPosto = u.body.codigoPosto,
                          !.runId = u.body.runId,
                          !.itemId = u.body.itemId,
                          !.criadoEm = today]
    ELSE [NoRecord EXCEPT !.exists = TRUE,
                          !.codigoPosto = u.body.codigoPosto,
                          !.runId = u.body.runId,
                          !.itemId = u.body.itemId,
                          !.criadoEm = today,
                          !.originalName = u.body.file.originalname,
                          !.size = u.body.file.size,
                          !.mime = MimeOf(u)]

\* !codigoPosto || !runId || !itemId || !base64 (or !file)
MissingField(route, body) ==
    \/ body.codigoPosto = ""
    \/ body.runId = ""
    \/ body.itemId = ""
    \/ IF route = "/upload-foto" THEN ~body.base64 ELSE body.file = NoFile

\* the handler, up to the first await drive.files.list
UploadBegin(sl) ==
    /\ uploads[sl].pc = "idle"
    /\ \E route \in UploadRoutes(server) :
       \E body \in BodiesOf(route) :
          uploads' = [uploads EXCEPT ![sl] =
             LET u == [IdleUpload EXCEPT !.route = route, !.body = body]
             IN  IF MissingField(route, body) THEN UploadAnswer(u, 400, 0)
                 ELSE [u EXCEPT !.level = 1, !.pc = "list",
                                !.log = Append(@, "list")]]
    /\ UNCHANGED <<folders, files, driveFiles, brokerVars, routeVars, hookVars,
                   accessVars>>

\* drive.files.list of findOrCreateFolder returns or throws; with a match the
\* folder is the first of the listing, else drive.files.create is awaited
FolderListReturns(sl) ==
    /\ uploads[sl].pc = "list"
    /\ LET u     == uploads[sl]
           found == ListFolders(FolderName(u), u.parent)
       IN  \/ uploads' = [uploads EXCEPT ![sl] = UploadAnswer(u, 500, 0)]
           \/ /\ found # {}
              /\ \E id \in found :
                    uploads' = [uploads EXCEPT ![sl] = FolderResolved(u, id)]
           \/ /\ found = {}
              /\ uploads' = [uploads EXCEPT ![sl] =
                                [u EXCEPT !.pc = "create",
                                          !.log = Append(@, "create")]]
    /\ UNCHANGED <<folders, files, driveFiles, brokerVars, routeVars, hookVars,
                   accessVars>>

\* drive.files.create of findOrCreateFolder returns the new folder or throws
FolderCreateReturns(sl) ==
    /\ uploads[sl].pc = "create"
    /\ LET u == uploads[sl]
       IN  \/ /\ folders' = Append(folders, [name |-> FolderName(u),
                                             parent |-> u.parent])
              /\ uploads' = [uploads EXCEPT ![sl] =
                                FolderResolved(u, Len(folders) + 1)]
           \/ /\ uploads' = [uploads EXCEPT ![sl] = UploadAnswer(u, 500, 0)]
              /\ UNCHANGED folders
    /\ UNCHANGED <<files, driveFiles, brokerVars, routeVars, hookVars,
                   accessVars>>

\* uploadBase64ToDrive / uploadBufferToDrive returns the new file's id or
\* throws; src/index.js goes on to write the driveFiles document, the
\* servers of src/driveAuth.js answer { fileId } at once
UploadReturns(sl) ==
    /\ uploads[sl].pc = "upload"
    /\ LET u  == uploads[sl]
           id == Len(files) + 1
       IN  \/ /\ files' = Append(files, [name |-> Filename(u, now),
                                         parent |-> u.parent])
              /\ uploads' = [uploads EXCEPT ![sl] =
                    IF server = "index"
                    THEN [u EXCEPT !.fileId = id, !.pc = "record",
                                   !.log = Append(@, "set")]
                    ELSE UploadAnswer([u EXCEPT !.fileId = id], 200, id)]
           \/ /\ uploads' = [uploads EXCEPT ![sl] = UploadAnswer(u, 500, 0)]
              /\ UNCHANGED files
    /\ UNCHANGED <<folders, driveFiles, brokerVars, routeVars, hookVars,
                   accessVars>>

\* db.collection("driveFiles").doc(fileId).set(...) takes effect and
\* { fileId } is answered, or it throws and 500 is answered
RecordSetCompletes(sl) ==
    /\ uploads[sl].pc = "record"
    /\ server = "index"
    /\ LET u == uploads[sl]
       IN  \/ /\ driveFiles' = [driveFiles EXCEPT ![u.fileId] =
                                   FileRecord(u, date)]
              /\ uploads' = [uploads EXCEPT ![sl] =
                                UploadAnswer(u, 200, u.fileId)]
           \/ /\ uploads' = [uploads EXCEPT ![sl] = UploadAnswer(u, 500, 0)]
              /\ UNCHANGED driveFiles
    /\ UNCHANGED <<folders, files, brokerVars, routeVars, hookVars,
                   accessVars>>

InitUpload ==
    /\ InitBroker
    /\ InitRoutes
    /\ server \in {"index", "driveAuthA", "driveAuthB"}
    /\ mpClient = "client"
    /\ payments = [i \in PaymentIds |-> SecondPayment]
    /\ usuarios = [u \in Uids |-> NoDoc]
    /\ hooks = [sl \in Slots |-> IdleHook]
    /\ date = [day |-> 30, ms |-> 0]
    /\ dateTicks = 0

NextUpload ==
    \/ \E sl \in UploadSlots : UploadBegin(sl)
    \/ \E sl \in UploadSlots : FolderListReturns(sl)
    \/ \E sl \in UploadSlots : FolderCreateReturns(sl)
    \/ \E sl \in UploadSlots : UploadReturns(sl)
    \/ \E sl \in UploadSlots : RecordSetCompletes(sl)

SpecUpload == InitUpload /\ [][NextUpload]_vars

(***************************************************************************)
(* C1..C4: properties of signFileUrl / verifySignedToken.                  *)
(***************************************************************************)
\* C1: a token issued for a resource with ttl > 0 verifies for that resource
\* at every instant up to and including expiresAt, and is rejected at every
\* instant after expiresAt.
C1_ValidUntilExpiry ==
    \A t \in issued :
        (lastVerify.token = t.token /\ lastVerify.fileId = t.fileId)
            => lastVerify.result =
                   (IF lastVerify.at <= t.expiresAt THEN "true" ELSE "false")

C1_Witness ==
    \E t \in issued :
        /\ lastVerify.token = t.token /\ lastVerify.fileId = t.fileId
        /\ lastVerify.at > t.expiresAt
        /\ lastVerify.result = "false"

\* C2: binding integrity - a token issued for one resource is rejected for
\* every other resource, at any instant.
C2_BindingIntegrity ==
    \A t \in issued :
        (lastVerify.token = t.token /\ lastVerify.fileId # t.fileId)
            => lastVerify.result = "false"

C2_Witness ==
    \E t \in issued :
        /\ lastVerify.token = t.token /\ lastVerify.fileId # t.fileId
        /\ lastVerify.at <= t.expiresAt
        /\ lastVerify.result = "false"

\* C3: a token made from an issued one by changing one hex character of the
\* signature, or by replacing the expiry with another instant while keeping
\* the signature, is rejected for that resource.
C3_NoIndependentAlteration ==
    \A t \in issued :
        (/\ lastVerify.fileId = t.fileId
         /\ lastVerify.token \in SigTampered(t.token) \cup
                                  ExpirySwapped(t.token, t.expiresAt))
            => lastVerify.result = "false"

C3_Witness ==
    \E t \in issued :
        /\ lastVerify.fileId = t.fileId
        /\ lastVerify.at <= t.expiresAt
        /\ lastVerify.token \in SigTampered(t.token)
        /\ lastVerify.result = "false"

\* C4: verifySignedToken never throws, and returns false for every malformed
\* token and for every token when the signing secret is unset.
C4_FailsClosed ==
    lastVerify.result # "none" =>
        /\ lastVerify.result \in {"true", "false"}
        /\ (Malformed(lastVerify.token) \/ SIGNING_SECRET = Unset)
               => lastVerify.result = "false"

C4_Witness ==
    /\ SIGNING_SECRET # Unset
    /\ lastVerify.result = "false"
    /\ Len(lastVerify.token) > 0
    /\ LET parts == Split(lastVerify.token, ".")
       IN  /\ Len(parts) = 2
           /\ ~Number(parts[1]).nan
           /\ Number(parts[1]).val >= lastVerify.at
           /\ Len(parts[2]) = DigestHexLen + 1

(***************************************************************************)
(* C5, C6: the routes of the capability broker.                            *)
(***************************************************************************)
\* C5: GET /drive-file/:id reaches the store for an id only after
\* verifySignedToken accepted the request's token for that id, and a request
\* whose token is rejected is answered 403 with no store access.
C5_VerifyBeforeProxy ==
    /\ req.storeCalls # <<>> =>
          /\ req.verify = "true"
          /\ \A i \in 1..Len(req.storeCalls) : req.storeCalls[i].fileId = req.fileId
    /\ req.verify = "false" =>
          /\ req.statuses = <<403>>
          /\ req.storeCalls = <<>>

IsHexDigest(str) ==
    /\ Len(str) = DigestHexLen
    /\ \A i \in 1..Len(str) : str[i] \in HexChars

\* C6: POST /signed-urls answers 400 to a fileIds that is not an array and
\* 500 when the signing secret is unset; otherwise every URL it returns for
\* an id carries t = expiresAtMillis.hexSignature with expiresAt = request
\* time + 15 minutes, and GET /drive-file/:id on that URL before expiry
\* verifies the token for that same id.
C6_SignedUrlRoundTrip ==
    /\ urlsRes.status # 0 =>
          /\ ~urlsRes.isArray => urlsRes.status = 400
          /\ (urlsRes.isArray /\ SIGNING_SECRET = Unset) => urlsRes.status = 500
          /\ (urlsRes.isArray /\ SIGNING_SECRET # Unset) =>
                /\ urlsRes.status = 200
                /\ \A u \in urlsRes.urls :
                      LET parts == Split(ParseRequest(u.url).token, ".")
                      IN  /\ Len(parts) = 2
                          /\ parts[1] = ToDecimal(urlsRes.at + SignedUrlTtlMs)
                          /\ IsHexDigest(parts[2])
    /\ \A u \in urlsRes.urls :
          (/\ req.pc # "idle"
           /\ req.url = u.url
           /\ req.at <= urlsRes.at + SignedUrlTtlMs)
              => (req.fileId = u.id /\ req.verify = "true")

(***************************************************************************)
(* C7..C10: the payment webhooks.                                          *)
(***************************************************************************)
Answers(h) == SelectSeq(h.log, LAMBDA e : e \in {"ack200", "res500"})

StepOf(sl) == hooks[sl].pc \in {"fetch", "get", "write"} /\ hooks'[sl] # hooks[sl]

\* C8: a delivery whose payment the provider reports as anything other than
\* approved mutates nothing: no user document changes and none is created.
C8_NonApprovedNoMutation ==
    [][\A sl \in DOMAIN hooks :
          (/\ StepOf(sl)
           /\ payments[hooks[sl].dataId].known
           /\ payments[hooks[sl].dataId].status # "approved")
              => usuarios' = usuarios]_vars

\* C9: a delivery of an approved payment whose metadata has no uid, no plan,
\* or a plan key outside the catalog writes no field of any user document.
C9_BadMetadataNoWrite ==
    [][\A sl \in DOMAIN hooks :
          (/\ StepOf(sl)
           /\ payments[hooks[sl].dataId].known
           /\ payments[hooks[sl].dataId].status = "approved"
           /\ \/ payments[hooks[sl].dataId].uid = ""
              \/ payments[hooks[sl].dataId].plano \notin PlanKeys)
              => usuarios' = usuarios]_vars

\* C10: a delivery of an approved payment never creates a user: a uid that
\* has no document before a step of the delivery has none after it.
C10_NeverCreatesUser ==
    [][\A sl \in DOMAIN hooks :
          (/\ StepOf(sl)
           /\ payments[hooks[sl].dataId].known
           /\ payments[hooks[sl].dataId].status = "approved")
              => \A u \in Uids : ~usuarios[u].exists => ~usuarios'[u].exists]_vars

(***************************************************************************)
(* C11..C15: unknown references, re-delivery and plan arithmetic.          *)
(***************************************************************************)
Calls(h, what) == Len(SelectSeq(h.log, LAMBDA e : e = what))

\* C11: a delivery whose payment reference the provider does not know
\* (the fetch fails with not_found) ends there: no store call is made, no user
\* document changes, and the one answer the provider gets is 200.
C11_UnknownReferenceIgnored ==
    [][\A sl \in DOMAIN hooks :
          (hooks[sl].pc = "fetch" /\ hooks'[sl].threw = "not_found")
              => /\ usuarios' = usuarios
                 /\ hooks'[sl].pc = "done"
                 /\ hooks'[sl].status = 200
                 /\ Answers(hooks'[sl]) = <<"ack200">>
                 /\ Calls(hooks'[sl], "get") = 0
                 /\ Calls(hooks'[sl], "write") = 0]_vars

C11_Witness ==
    \E sl \in DOMAIN hooks :
        /\ server = "driveAuthA"
        /\ hooks[sl].pc = "done"
        /\ hooks[sl].threw = "not_found"
        /\ hooks[sl].status = 200
        /\ ~payments[hooks[sl].dataId].known

\* the document records payment id as the one applied to it
AppliedTo(doc, id) ==
    /\ doc.autorizado = "true"
    /\ doc.pagamento.paymentId = id
    /\ doc.pagamento.status \in {"approved", "APPROVED"}

\* the step in which the store write of delivery sl takes effect
WriteLands(sl) ==
    /\ hooks[sl].pc = "write"
    /\ hooks'[sl].pc = "done"
    /\ hooks'[sl].threw = ""

\* the step in which delivery sl calls the store write
WriteCalled(sl) ==
    /\ hooks[sl].pc \in {"fetch", "get"}
    /\ hooks'[sl].pc = "write"

\* C12: delivering an approved payment again leaves vencimento as the first
\* delivery set it: a write of a payment the document already records as
\* applied does not change vencimento.
C12_RedeliveryKeepsVencimento ==
    [][\A sl \in DOMAIN hooks :
          (/\ WriteLands(sl)
           /\ payments[hooks[sl].dataId].status = "approved"
           /\ AppliedTo(usuarios[payments[hooks[sl].dataId].uid], hooks[sl].dataId))
              => usuarios'[payments[hooks[sl].dataId].uid].vencimento
                    = usuarios[payments[hooks[sl].dataId].uid].vencimento]_vars

\* C13: the entitlement is written once per approved payment: no delivery
\* calls the store write for a payment the document already records as
\* applied.
C13_AppliedExactlyOnce ==
    [][\A sl \in DOMAIN hooks :
          (/\ WriteCalled(sl)
           /\ payments[hooks[sl].dataId].status = "approved")
              => ~AppliedTo(usuarios[payments[hooks[sl].dataId].uid],
                            hooks[sl].dataId)]_vars

\* the catalog as the claim reads it, for the plans it names
ClaimedCatalog == [mensal     |-> [months |-> 1,  count |-> 1],
                   anual_plus |-> [months |-> 12, count |-> 2]]

MonthDays == <<31, 28, 31, 30, 31, 30, 31, 31, 30, 31, 30, 31>>

\* T + months on the calendar: the same day of the month, months later, and
\* the last day of that month when it has no such day
PlusMonths(d, months) ==
    LET year   == d.day \div 365
        doy    == d.day % 365
        m      == MonthOf(doy)
        dom    == doy - MonthStart[m]
        total  == (m - 1) + months
        target == (total % 12) + 1
        last   == MonthDays[target] - 1
    IN  [day |-> (year + (total \div 12)) * 365 + MonthStart[target]
                    + (IF dom > last THEN last ELSE dom),
         ms  |-> d.ms]

\* C14: when an approved payment with catalog plan P is applied to an
\* existing user by a delivery that took the instant T, the document has
\* autorizado = true, plano = P, acessosPermitidos = the catalog's count and
\* vencimento = T + the catalog's months.
C14_PlanArithmetic ==
    [][\A sl \in DOMAIN hooks :
          (/\ WriteLands(sl)
           /\ payments[hooks[sl].dataId].status = "approved"
           /\ payments[hooks[sl].dataId].plano \in DOMAIN ClaimedCatalog
           /\ usuarios[payments[hooks[sl].dataId].uid].exists)
              => LET P   == payments[hooks[sl].dataId].plano
                     doc == usuarios'[payments[hooks[sl].dataId].uid]
                 IN  /\ doc.autorizado = "true"
                     /\ doc.plano = P
                     /\ doc.acessosPermitidos = ClaimedCatalog[P].count
                     /\ doc.vencimento =
                            PlusMonths(hooks[sl].at, ClaimedCatalog[P].months)]_vars

\* C15: two deliveries of the same approved payment that race end in the
\* document state of a single delivery whatever the order of their steps:
\* when the write of one lands while the write of the other is in flight,
\* both carry the same vencimento, so the order in which they land does not
\* show in the document.
C15_RacingDeliveriesConverge ==
    [][\A a, b \in DOMAIN hooks :
          (/\ a # b
           /\ WriteLands(a)
           /\ hooks[b].pc = "write"
           /\ hooks[a].dataId = hooks[b].dataId
           /\ payments[hooks[a].dataId].status = "approved")
              => hooks[a].venc = hooks[b].venc]_vars

(***************************************************************************)
(* C16: POST /portal/set-access.                                           *)
(***************************************************************************)
\* the uid the request's identity token stands for, "" without a valid one
Caller(a) == DecodedUid(BearerToken(a.header))

\* the caller presents a valid identity token, the caller's stored role is
\* super_admin, and the body names a target and a portal role
Entitled(a) ==
    /\ Caller(a) # ""
    /\ usuarios[Caller(a)].exists
    /\ usuarios[Caller(a)].rolePortal = "super_admin"
    /\ a.body.targetUid # ""
    /\ a.body.rolePortal \in {"admin", "super_admin"}

\* the step in which the request is answered
Answered == access' # access /\ access'.pc = "done"

\* C16 as claimed: a user document changes only for an entitled request, and
\* a request that is not entitled is answered 401, 403 or 400 and writes
\* nothing.
C16_SetAccessGuarded ==
    [][/\ usuarios' # usuarios => Entitled(access')
       /\ (Answered /\ ~Entitled(access'))
             => /\ access'.status \in {401, 403, 400}
                /\ usuarios' = usuarios
                /\ Calls(access', "set") = 0]_vars

\* C16 as amended: a user document changes only for an entitled request, and
\* then only the target's rolePortal, postosPermitidos and atualizadoEm.  A
\* request that is not entitled writes nothing and is answered 401 without a
\* valid identity token, 500 when the role lookup throws, 403 when the stored
\* role is not super_admin, 400 when the target is missing or the role is
\* not admin or super_admin.  An entitled request is answered 200 once the
\* write has landed, 500 when the role lookup or the write throws, 401 when
\* the token verification throws.
C16_SetAccessGuardedOr500 ==
    [][/\ usuarios' # usuarios
             => /\ Entitled(access')
                /\ access.pc = "write"
                /\ access'.status = 200
                /\ \A u \in Uids \ {access.body.targetUid} :
                       usuarios'[u] = usuarios[u]
                /\ usuarios'[access.body.targetUid] =
                       [usuarios[access.body.targetUid] EXCEPT
                           !.exists = TRUE,
                           !.rolePortal = access.body.rolePortal,
                           !.postosPermitidos =
                               IF access.body.rolePortal = "super_admin"
                               THEN <<>>
                               ELSE IF access.body.postosPermitidos = NoList
                               THEN <<>>
                               ELSE access.body.postosPermitidos,
                           !.atualizadoEm = date]
       /\ (Answered /\ ~Entitled(access'))
             => /\ usuarios' = usuarios
                /\ Calls(access', "set") = 0
                /\ access'.status =
                      (IF Caller(access') = "" \/ access'.threw = "verifyIdToken"
                       THEN 401
                       ELSE IF access'.threw = "get" THEN 500
                       ELSE IF ~(/\ usuarios[Caller(access')].exists
                                 /\ usuarios[Caller(access')].rolePortal
                                       = "super_admin")
                       THEN 403
                       ELSE 400)
       /\ (Answered /\ Entitled(access'))
             => access'.status =
                   (IF access'.threw = "verifyIdToken" THEN 401
                    ELSE IF access'.threw \in {"get", "set"} THEN 500
                    ELSE 200)]_vars

C16_Witness ==
    /\ access.pc = "done"
    /\ access.status = 200
    /\ access.uid = "u1"
    /\ access.body = AccessBody("u2", "admin", <<"p1">>)
    /\ usuarios["u2"].exists
    /\ usuarios["u2"].rolePortal = "admin"
    /\ usuarios["u2"].postosPermitidos = <<"p1">>

(***************************************************************************)
(* C17..C20: what the webhooks read of a notification, configuration,      *)
(* and the expiry window.                                                  *)
(***************************************************************************)
\* two deliveries are both over, for the same payment reference, and nothing
\* threw in either
SameReferenceDone(a, b) ==
    /\ a # b
    /\ hooks[a].pc = "done"
    /\ hooks[b].pc = "done"
    /\ hooks[a].dataId # <<>>
    /\ hooks[a].dataId = hooks[b].dataId
    /\ hooks[a].threw = ""
    /\ hooks[b].threw = ""

\* the calls and answers are the same, and so is the vencimento written when
\* the instant is the same
SameOutcome(a, b) ==
    /\ hooks[a].status = hooks[b].status
    /\ hooks[a].log = hooks[b].log
    /\ hooks[a].at = hooks[b].at => hooks[a].venc = hooks[b].venc

PaymentNotified(sl) ==
    /\ mpClient = "client"
    /\ hooks[sl].pc \in {"idle", "done"}
    /\ hooks'[sl] # hooks[sl]
    /\ hooks'[sl].n.type # "other"
    /\ hooks'[sl].n.topic # "merchant_order"

\* C18: a payment notification with the reference in data.id, or in the last
\* segment of a resource path, goes on to the provider fetch for that
\* reference; one with neither ends without a fetch and without a write.
C18_BothReferenceShapes ==
    [][\A sl \in DOMAIN hooks :
          PaymentNotified(sl)
              => LET h == hooks'[sl]
                 IN  /\ h.n.dataId # <<>> =>
                            (h.pc = "fetch" /\ h.dataId = h.n.dataId)
                     /\ (h.n.dataId = <<>> /\ h.n.resource # <<>>) =>
                            (/\ h.pc = "fetch"
                             /\ h.dataId = <<h.n.resource[Len(h.n.resource)]>>)
                     /\ (h.n.dataId = <<>> /\ h.n.resource = <<>>) =>
                            (/\ h.pc = "done"
                             /\ Calls(h, "fetch") = 0
                             /\ usuarios' = usuarios)]_vars

\* C19: a server that takes requests has its secrets: no webhook delivery is
\* received, and none is answered with a configuration error, by a server
\* that has no payment-provider access token.
C19_FailsFastAtStartup ==
    \A sl \in DOMAIN hooks :
        /\ hooks[sl].pc # "idle" => mpClient # "null"
        /\ hooks[sl].status = 500 => mpClient # "null"

\* the months of the window a plan key buys (an unknown key buys mensal's)
WindowMonths(plano) == IF plano \in PlanKeys THEN PLANS[plano].months ELSE 1

C21_OneStatusNoRetry ==
    /\ Len(req.statuses) <= 1
    /\ Len(SelectSeq(req.storeCalls, LAMBDA c : c.op = "media")) <= 1
    /\ req.pc = "broken" => req.statuses = <<500>>

\* C22: every fileId an upload route returns has a driveFiles document holding
\* the request's codigoPosto, runId and itemId when the response is sent; a
\* request missing a required field is answered 400 having called neither
\* Drive nor the store; and every driveFiles document is the one its upload
\* wrote (nothing modifies or deletes it afterwards).
C22_UploadCreatesFileRecord ==
    /\ \A sl \in UploadSlots :
          LET u == uploads[sl]
          IN  /\ u.answered # 0 =>
                    /\ driveFiles[u.answered].exists
                    /\ driveFiles[u.answered].codigoPosto = u.body.codigoPosto
                    /\ driveFiles[u.answered].runId = u.body.runId
                    /\ driveFiles[u.answered].itemId = u.body.itemId
              /\ (u.pc = "done" /\ MissingField(u.route, u.body)) =>
                    u.status = 400 /\ u.log = <<>>
              /\ u.status = 400 => MissingField(u.route, u.body)
    /\ \A f \in DOMAIN driveFiles :
          driveFiles[f].exists =>
             \E sl \in UploadSlots :
                /\ uploads[sl].fileId = f
                /\ driveFiles[f] = FileRecord(uploads[sl], driveFiles[f].criadoEm)

\* C25: under any interleaving of concurrent uploads at most one folder of a
\* given name exists under a given parent, and two uploads with the same
\* codigoPosto and runId put their files into the same folder.
C25_FolderNamesUnique ==
    /\ \A i, j \in 1..Len(folders) : folders[i] = folders[j] => i = j
    /\ \A s1, s2 \in UploadSlots :
          LET u1 == uploads[s1]
              u2 == uploads[s2]
          IN  ( /\ u1.fileId # 0
                /\ u2.fileId # 0
                /\ u1.body.codigoPosto = u2.body.codigoPosto
                /\ u1.body.runId = u2.body.runId )
              => files[u1.fileId].parent = files[u2.fileId].parent

\* C23: verifySignedToken returns true only for a token that is
\* character-for-character one that signFileUrl produced: an issued token with
\* segments appended after the signature, or with its expiry number spelled
\* differently, is rejected.
C23_OnlyIssuedSpelling ==
    lastVerify.result = "true" =>
        \E t \in issued : lastVerify.token = t.token

\* C24: after any sequence of webhook deliveries, a user document on which the
\* webhook has set autorizado = true records a payment whose status is
\* approved and whose paymentId is that of an approved payment; a later
\* pending or rejected notification does not leave autorizado = true beside a
\* non-approved payment record.
C24_AuthorizedMeansApproved ==
    \A u \in Uids :
        usuarios[u].autorizado = "true" =>
            /\ usuarios[u].pagamento.status \in {"approved", "APPROVED"}
            /\ usuarios[u].pagamento.paymentId \in PaymentIds
            /\ payments[usuarios[u].pagamento.paymentId].status = "approved"

\* the entitlement fields of a user document, written by the webhook
EntitlementOf(doc) ==
    <<doc.autorizado, doc.plano, doc.vencimento, doc.acessosPermitidos,
      doc.pagamento>>

\* the access fields of a user document, written by set-access
AccessOf(doc) == <<doc.rolePortal, doc.postosPermitidos>>

\* C26: under any interleaving of the webhook and /portal/set-access on the
\* shared user documents, a step of the webhook leaves rolePortal and
\* postosPermitidos of every document unchanged, and a step of set-access
\* leaves autorizado, plano, vencimento, acessosPermitidos and pagamento of
\* every document unchanged.
C26_DisjointFields ==
    [][ /\ hooks' # hooks =>
              \A u \in Uids : AccessOf(usuarios'[u]) = AccessOf(usuarios[u])
        /\ access' # access =>
              \A u \in Uids :
                 EntitlementOf(usuarios'[u]) = EntitlementOf(usuarios[u]) ]_vars

\* both handlers have written the same document: set-access answered ok for
\* u1 after the webhook had applied a payment to it
C26_Witness ==
    /\ access.pc = "done"
    /\ access.status = 200
    /\ access.body.targetUid = "u1"
    /\ usuarios["u1"].rolePortal = "admin"
    /\ usuarios["u1"].postosPermitidos = <<>>
    /\ usuarios["u1"].autorizado = "true"
    /\ usuarios["u1"].pagamento.paymentId \in PaymentIds
    /\ \E sl \in DOMAIN hooks : hooks[sl].pc = "done"

\* a step in which a call of a delivery throws
FailedStep ==
    \E sl \in DOMAIN hooks :
        hooks'[sl] # hooks[sl] /\ hooks'[sl].threw # ""

\* C27: no approved payment is lost: when the provider delivers the
\* notification of an approved payment with valid uid and plan for an existing
\* user, delivers it again after every non-200 answer, and the provider fetch
\* and the store write fail on finitely many deliveries only, the payment is
\* eventually applied to the user's document.
C27_NoApprovedPaymentLost ==
    <>[][~FailedStep]_vars => <>AppliedTo(usuarios["u1"], <<"7">>)

====
